---- MODULE Spec2Model ----
(***************************************************************************)
(* Block-oriented compression pipeline of src/main.rs:                     *)
(*   BlockCompressor::compress    splits a byte buffer into blocks, hands  *)
(*                                each to the codec and writes             *)
(*                                <length field, payload> to a sink;       *)
(*   BlockDecompressor::next_block reads one frame back and decodes it.    *)
(* Sizes are usize values of SizeOfUsize bytes of ByteBits bits each, so   *)
(* that the arithmetic of the length field keeps its width.                *)
(***************************************************************************)
EXTENDS Integers, Sequences, FiniteSets, TLC

\* ------------------------------------------------------------------ bounds
ByteBits == 2
SizeOfUsize == 2
MaxLen == 3
MaxBlock == 4
MaxFrames == 4
MaxFaults == 1
MaxNones == 2
MaxWideLen == 7

\* ------------------------------------------------------------ arithmetic
RECURSIVE Pow(_, _)
Pow(b, e) == IF e = 0 THEN 1 ELSE b * Pow(b, e - 1)

ByteBase == Pow(2, ByteBits)
Word == Pow(ByteBase, SizeOfUsize)
MaxWord == Word - 1
IsizeMax == Word \div 2 - 1

Min(a, b) == IF a < b THEN a ELSE b

CeilDiv(a, b) == (a + b - 1) \div b

RECURSIVE Concat(_)
Concat(ss) == IF ss = <<>> THEN <<>> ELSE Head(ss) \o Concat(Tail(ss))

Prefix(s, n) == SubSeq(s, 1, n)

\* ------------------------------------------------ usize as raw bytes
\* Mutant: the length field written in the other byte order.
to_raw_bytes_swapped(x, e) ==
    [i \in 1 .. SizeOfUsize |->
        LET k == IF e = "little" THEN SizeOfUsize - i ELSE i - 1
        IN  (x \div Pow(ByteBase, k)) % ByteBase]

\* The in-memory bytes of a usize, in the machine's byte order.
to_raw_bytes(x, e) ==
    [i \in 1 .. SizeOfUsize |->
        LET k == IF e = "little" THEN i - 1 ELSE SizeOfUsize - i
        IN  (x \div Pow(ByteBase, k)) % ByteBase]

\* The usize whose in-memory bytes are bs.
from_raw_bytes(bs, e) ==
    LET k(i) == IF e = "little" THEN i - 1 ELSE SizeOfUsize - i
        RECURSIVE Sum(_)
        Sum(i) == IF i > SizeOfUsize THEN 0
                  ELSE bs[i] * Pow(ByteBase, k(i)) + Sum(i + 1)
    IN  Sum(1)

\* The bytes of a usize that held 0 after a read stored `got` at its start.
to_raw_bytes_mut(got) ==
    [i \in 1 .. SizeOfUsize |-> IF i <= Len(got) THEN got[i] ELSE 0]

\* ----------------------------------------------------------------- codecs
\* snappy::compress: the uncompressed length, then the bytes as one literal.
snappy_compress(d) == <<Len(d) % ByteBase>> \o d

\* snappy::uncompress accepts an input whose header matches what follows.
snappy_valid(c) == Len(c) >= 1 /\ c[1] = (Len(c) - 1) % ByteBase

snappy_uncompress(c) == Tail(c)

CodecCompress(c, d) == IF c = "none" THEN d ELSE snappy_compress(d)

\* Mutant: uncompress checks only that a header is there.
CodecDecompressOkAnyHeader(c, d) == c = "none" \/ Len(d) >= 1

CodecDecompressOk(c, d) == c = "none" \/ snappy_valid(d)

\* Mutant: decompress hands back the bytes it was given.
CodecDecompressRaw(c, d) == d

CodecDecompress(c, d) == IF c = "none" THEN d ELSE snappy_uncompress(d)

\* Mutant: the scratch buffer only ever grows.
ResizeGrowOnly(v, n) ==
    [i \in 1 .. (IF Len(v) > n THEN Len(v) ELSE n) |->
        IF i <= Len(v) THEN v[i] ELSE 0]

\* Vec::resize(n, 0): truncate, or extend with zeros.
Resize(v, n) == [i \in 1 .. n |-> IF i <= Len(v) THEN v[i] ELSE 0]

\* A read of k bytes into the start of buffer v.
Fill(v, got) == [i \in 1 .. Len(v) |-> IF i <= Len(got) THEN got[i] ELSE v[i]]

\* ------------------------------------------------------------------ state
VARIABLES
    data,             \* the buffer handed to compress
    block_size,       \* BlockCompressor.block_size
    codec,            \* which Compressor is plugged in
    endian,           \* the machine's byte order
    pc,               \* where the program is
    lower_limit,      \* compress: start of the next block
    upper_limit,      \* compress: end of the current block
    compressed_chunk, \* compress: the codec's output for the current block
    codec_buffer,     \* SnappyCompressor.buffer
    dest,             \* the bytes the sink holds
    events,           \* history: codec calls and sink writes of compress
    reader,           \* the bytes of the source
    reader_pos,       \* the source's position
    chunk_size,       \* next_block: the length read
    buffer,           \* BlockDecompressor.buffer
    len_read,         \* history: count returned by the last length-field read
    payload_read,     \* history: count returned by the last payload read
    result,           \* history: what the last next_block call returned
    out,              \* history: the blocks yielded so far
    calls,            \* history: number of next_block calls begun
    failure,          \* why the program panicked, if it did
    faults            \* history: what the sink and source did wrong

vars == <<data, block_size, codec, endian, pc, lower_limit, upper_limit,
          compressed_chunk,
          codec_buffer, dest, events, reader, reader_pos, chunk_size, buffer,
          len_read, payload_read, result, out, calls, failure, faults>>

inputs == <<data, block_size, codec, endian>>
writer_vars == <<lower_limit, upper_limit, compressed_chunk, dest, events>>
reader_vars == <<reader, reader_pos, chunk_size, buffer, len_read,
                 payload_read, result, out, calls>>

num_bytes == Len(data)

\* ----------------------------------------------------------------- inputs
SeqsUpTo(S, n) == UNION {[1 .. k -> S] : k \in 0 .. n}

\* compress and next_block never branch on the value of a data byte, so two
\* values tell every position apart; 0 is what Vec::resize fills with.
DataBytes == {0, 1}

\* A slice is never longer than isize::MAX.
Buffers == SeqsUpTo(DataBytes, Min(MaxLen, IsizeMax))

BlockSizes == (0 .. Min(MaxBlock, MaxWord)) \cup {MaxWord}

Codecs == {"none", "snappy"}

\* compress is entered; no reader exists yet.
Entered ==
    /\ pc = "loop"
    /\ lower_limit = 0
    /\ upper_limit = 0
    /\ compressed_chunk = <<>>
    /\ codec_buffer = <<>>
    /\ dest = <<>>
    /\ events = <<>>
    /\ reader = <<>>
    /\ reader_pos = 0
    /\ chunk_size = 0
    /\ buffer = <<>>
    /\ len_read = 0
    /\ payload_read = 0
    /\ result = "-"
    /\ out = <<>>
    /\ calls = 0
    /\ failure = "none"
    /\ faults = <<>>

Init ==
    /\ data \in Buffers
    /\ block_size \in BlockSizes
    /\ codec \in Codecs
    /\ endian \in {"little", "big"}
    /\ Entered

\* Buffers of every length a slice can have (the bytes play no part in the
\* bounds of the blocks), and every positive block size.
WideBuffers == {[i \in 1 .. k |-> 0] : k \in 0 .. Min(MaxWideLen, IsizeMax)}

InitWide ==
    /\ data \in WideBuffers
    /\ block_size \in 1 .. MaxWord
    /\ codec \in Codecs
    /\ endian \in {"little", "big"}
    /\ Entered

\* ------------------------------------------------------ sink and source
MayFault == Len(faults) < MaxFaults

\* io::Write::write(buf): Ok(n) with n <= len(buf), or Err.
WriteOutcomes(buf) ==
    {[ok |-> TRUE, n |-> Len(buf), fault |-> "none"]}
    \cup (IF MayFault
          THEN {[ok |-> TRUE, n |-> k, fault |-> "short_write"] :
                    k \in 0 .. Len(buf) - 1}
               \cup {[ok |-> FALSE, n |-> 0, fault |-> "write_err"]}
          ELSE {})

\* io::Read::read(buf) with `avail` bytes left: Ok(n), n <= min(len, avail),
\* n = 0 only at the end of the source or for an empty buf; or Err.
ReadOutcomes(want, avail) ==
    {[ok |-> TRUE, n |-> Min(want, avail), fault |-> "none"]}
    \cup (IF MayFault
          THEN {[ok |-> TRUE, n |-> k, fault |-> "short_read"] :
                    k \in 1 .. Min(want, avail) - 1}
               \cup {[ok |-> FALSE, n |-> 0, fault |-> "read_err"]}
          ELSE {})

Noted(f) == IF f = "none" THEN faults ELSE Append(faults, f)

\* The loop is cut off after this many iterations: more than any buffer with
\* a positive block size needs (block_size = 0 never leaves the loop).
FrameCap == IF num_bytes > MaxFrames THEN num_bytes ELSE MaxFrames

FramesStarted == Cardinality({j \in 1 .. Len(events) : events[j].op = "compress"})

\* ----------------------------------------------------------------- writer
\* Mutant: the loop stops before a final, shorter block.
LoopConditionDropsTail(lo, n) == lo + block_size <= n

\* while lower_limit < num_bytes
LoopCondition(lo, n) == lo < n

\* Mutant: the bound of the block is not offset by lower_limit.
UpperLimitFromZero(lo, bs, n) == Min(bs % Word, n)

\* Mutant: the block ends one byte late.
UpperLimitPlusOne(lo, bs, n) == Min((lo + bs + 1) % Word, n)

\* cmp::min(lower_limit + self.block_size, num_bytes), the sum in usize.
UpperLimit(lo, bs, n) == Min((lo + bs) % Word, n)

\* Mutant: the length field holds the length of the uncompressed block.
LengthFieldOfChunk == to_raw_bytes(upper_limit - lower_limit, endian)

\* compressed_chunk.len().to_raw_bytes()
LengthField == to_raw_bytes(Len(compressed_chunk), endian)

\* Mutant: the result of write is dropped instead of unwrapped.
WriteFailedIgnored(o) == FALSE

\* .unwrap() on the result of dest.write: Err panics.
WriteFailed(o) == ~o.ok

\* One pass of the loop head: the bound of the block, the slice, the codec.
CompressBlock ==
    /\ pc = "loop"
    /\ LoopCondition(lower_limit, num_bytes)
    /\ FramesStarted < FrameCap
    /\ LET sum == lower_limit + block_size IN
       \E checked \in (IF sum > MaxWord THEN BOOLEAN ELSE {FALSE}) :
         LET upper == UpperLimit(lower_limit, block_size, num_bytes)
             chunk == SubSeq(data, lower_limit + 1, upper)
             cc == CodecCompress(codec, chunk)
         IN  IF checked
             THEN /\ pc' = "panic"
                  /\ failure' = "add_overflow"
                  /\ UNCHANGED <<upper_limit, compressed_chunk, codec_buffer,
                                 events>>
             ELSE IF upper < lower_limit
             THEN /\ pc' = "panic"
                  /\ failure' = "slice_index"
                  /\ upper_limit' = upper
                  /\ UNCHANGED <<compressed_chunk, codec_buffer, events>>
             ELSE /\ pc' = "write_len"
                  /\ upper_limit' = upper
                  /\ compressed_chunk' = cc
                  /\ codec_buffer' = IF codec = "snappy" THEN cc ELSE codec_buffer
                  /\ events' = Append(events,
                        [op |-> "compress", lo |-> lower_limit,
                         hi |-> upper, bytes |-> chunk, n |-> Len(cc)])
                  /\ UNCHANGED failure
    /\ UNCHANGED <<inputs, lower_limit, dest, reader_vars, faults>>

\* dest.write(compressed_chunk.len().to_raw_bytes()).unwrap()
WriteLength ==
    /\ pc = "write_len"
    /\ LET raw == LengthField IN
       \E o \in WriteOutcomes(raw) :
         /\ faults' = Noted(o.fault)
         /\ IF ~WriteFailed(o)
            THEN /\ dest' = dest \o Prefix(raw, o.n)
                 /\ events' = Append(events,
                        [op |-> "write_len", lo |-> lower_limit,
                         hi |-> upper_limit, bytes |-> raw, n |-> o.n])
                 /\ pc' = "write_payload"
                 /\ UNCHANGED failure
            ELSE /\ pc' = "panic"
                 /\ failure' = "write_unwrap"
                 /\ UNCHANGED <<dest, events>>
    /\ UNCHANGED <<inputs, lower_limit, upper_limit, compressed_chunk,
                   codec_buffer, reader_vars>>

\* dest.write(compressed_chunk).unwrap(); lower_limit = upper_limit
WritePayload ==
    /\ pc = "write_payload"
    /\ \E o \in WriteOutcomes(compressed_chunk) :
         /\ faults' = Noted(o.fault)
         /\ IF ~WriteFailed(o)
            THEN /\ dest' = dest \o Prefix(compressed_chunk, o.n)
                 /\ events' = Append(events,
                        [op |-> "write_payload", lo |-> lower_limit,
                         hi |-> upper_limit, bytes |-> compressed_chunk,
                         n |-> o.n])
                 /\ lower_limit' = upper_limit
                 /\ pc' = "loop"
                 /\ UNCHANGED failure
            ELSE /\ pc' = "panic"
                 /\ failure' = "write_unwrap"
                 /\ UNCHANGED <<dest, events, lower_limit>>
    /\ UNCHANGED <<inputs, upper_limit, compressed_chunk, codec_buffer,
                   reader_vars>>

\* The loop condition fails: compress returns.
CompressReturn ==
    /\ pc = "loop"
    /\ ~LoopCondition(lower_limit, num_bytes)
    /\ pc' = "written"
    /\ UNCHANGED <<inputs, writer_vars, codec_buffer, reader_vars, failure,
                   faults>>

\* ----------------------------------------------------------------- reader
\* File::open and get_block_decompressor: a reader over what the sink holds,
\* or over a truncation of it.
OpenSource ==
    /\ pc = "written"
    /\ \E k \in (IF MayFault THEN 0 .. Len(dest) ELSE {Len(dest)}) :
         /\ reader' = Prefix(dest, k)
         /\ faults' = Noted(IF k < Len(dest) THEN "truncated" ELSE "none")
    /\ reader_pos' = 0
    /\ buffer' = <<>>
    /\ pc' = "call"
    /\ UNCHANGED <<inputs, writer_vars, codec_buffer, chunk_size, len_read,
                   payload_read, result, out, calls, failure>>

Avail == Len(reader) - reader_pos

Taken(n) == SubSeq(reader, reader_pos + 1, reader_pos + n)

\* Mutant: the Ok(0) arm is missing.
LengthReadProceedsOnEof(o) == o.ok

\* The match on the length-field read: Err and Ok(0) return None.
LengthReadProceeds(o) == o.ok /\ o.n > 0

\* Mutant: the scratch buffer is resized before the match on the read.
ReadLengthResizesFirst ==
    /\ pc = "call"
    /\ calls - Len(out) < MaxNones
    /\ calls' = calls + 1
    /\ payload_read' = 0
    /\ \E o \in ReadOutcomes(SizeOfUsize, Avail) :
         /\ faults' = Noted(o.fault)
         /\ len_read' = IF o.ok THEN o.n ELSE -1
         /\ IF LengthReadProceeds(o)
            THEN /\ chunk_size' = from_raw_bytes(to_raw_bytes_mut(Taken(o.n)), endian)
                 /\ reader_pos' = reader_pos + o.n
                 /\ result' = "-"
                 /\ pc' = "payload"
            ELSE /\ chunk_size' = 0
                 /\ result' = "none"
                 /\ pc' = "call"
                 /\ UNCHANGED reader_pos
    /\ buffer' = Resize(buffer, chunk_size')
    /\ UNCHANGED <<inputs, writer_vars, codec_buffer, reader, out, failure>>

\* next_block, up to the match on the length-field read.
ReadLength ==
    /\ pc = "call"
    /\ calls - Len(out) < MaxNones
    /\ calls' = calls + 1
    /\ payload_read' = 0
    /\ \E o \in ReadOutcomes(SizeOfUsize, Avail) :
         /\ faults' = Noted(o.fault)
         /\ len_read' = IF o.ok THEN o.n ELSE -1
         /\ IF LengthReadProceeds(o)
            THEN /\ chunk_size' = from_raw_bytes(to_raw_bytes_mut(Taken(o.n)), endian)
                 /\ reader_pos' = reader_pos + o.n
                 /\ result' = "-"
                 /\ pc' = "payload"
            ELSE /\ chunk_size' = 0
                 /\ result' = "none"
                 /\ pc' = "call"
                 /\ UNCHANGED reader_pos
    /\ UNCHANGED <<inputs, writer_vars, codec_buffer, reader, buffer, out,
                   failure>>

\* next_block, from the resize of the scratch buffer to the return.
ReadPayload ==
    /\ pc = "payload"
    /\ LET resized == Resize(buffer, chunk_size) IN
       \E o \in ReadOutcomes(chunk_size, Avail) :
         /\ faults' = Noted(o.fault)
         /\ IF ~o.ok
            THEN /\ buffer' = resized
                 /\ pc' = "panic"
                 /\ failure' = "read_unwrap"
                 /\ result' = "panic"
                 /\ UNCHANGED <<reader_pos, payload_read, out, codec_buffer>>
            ELSE LET filled == Fill(resized, Taken(o.n)) IN
                 /\ buffer' = filled
                 /\ reader_pos' = reader_pos + o.n
                 /\ payload_read' = o.n
                 /\ IF CodecDecompressOk(codec, filled)
                    THEN /\ out' = Append(out, CodecDecompress(codec, filled))
                         /\ codec_buffer' = IF codec = "snappy"
                                            THEN CodecDecompress(codec, filled)
                                            ELSE codec_buffer
                         /\ result' = "some"
                         /\ pc' = "call"
                         /\ UNCHANGED failure
                    ELSE /\ pc' = "panic"
                         /\ failure' = "uncompress_unwrap"
                         /\ result' = "panic"
                         /\ UNCHANGED <<out, codec_buffer>>
    /\ UNCHANGED <<inputs, writer_vars, reader, chunk_size, len_read, calls>>

\* ---------------------------------------------------------- specification
Next ==
    \/ CompressBlock
    \/ WriteLength
    \/ WritePayload
    \/ CompressReturn
    \/ OpenSource
    \/ ReadLength
    \/ ReadPayload

Spec == Init /\ [][Next]_vars

\* compress alone, run to its end: a call that has begun keeps executing.
NextWriter ==
    \/ CompressBlock
    \/ WriteLength
    \/ WritePayload
    \/ CompressReturn

SpecWriter == Init /\ [][NextWriter]_vars /\ WF_vars(NextWriter)

SpecWide == InitWide /\ [][NextWriter]_vars

\* ------------------------------------------------- what the claims speak of
\* The blocks of the buffer, as the data model defines them (block i from 1).
NumBlocks == IF block_size = 0 THEN 0 ELSE CeilDiv(num_bytes, block_size)

Block(i) == SubSeq(data, (i - 1) * block_size + 1, Min(i * block_size, num_bytes))

EventsOf(kind) == SelectSeq(events, LAMBDA ev : ev.op = kind)

\* A reference parse of a byte stream into frames.
RECURSIVE ParseFrames(_, _)
ParseFrames(s, e) ==
    IF s = <<>> THEN [ok |-> TRUE, frames |-> <<>>]
    ELSE IF Len(s) < SizeOfUsize THEN [ok |-> FALSE, frames |-> <<>>]
    ELSE LET n == from_raw_bytes(SubSeq(s, 1, SizeOfUsize), e) IN
         IF Len(s) < SizeOfUsize + n THEN [ok |-> FALSE, frames |-> <<>>]
         ELSE LET rest == ParseFrames(SubSeq(s, SizeOfUsize + n + 1, Len(s)), e)
              IN  [ok |-> rest.ok,
                   frames |-> <<SubSeq(s, SizeOfUsize + 1, SizeOfUsize + n)>>
                              \o rest.frames]

\* compress has returned to its caller.
Returned ==
    \/ pc \in {"written", "call", "payload"}
    \/ failure \in {"read_unwrap", "uncompress_unwrap"}

FramesWritten == Len(EventsOf("write_payload"))

\* The sink or the source has done f.
Faulted(f) == \E j \in 1 .. Len(faults) : faults[j] = f

\* The reader has been drained: a next_block call reported no more blocks.
Drained == pc = "call" /\ result = "none"

\* ------------------------------------------------------------------ claims
\* C1: with a positive block size, either codec, a sink that takes every
\* write whole and a source that delivers what was written, the blocks
\* yielded until next_block reports no more blocks concatenate to the buffer.
RoundTrip ==
    (block_size > 0 /\ Drained /\ faults = <<>>) => Concat(out) = data

RoundTripWitness ==
    /\ block_size > 0 /\ Drained /\ faults = <<>>
    /\ codec = "snappy" /\ Len(data) = 3 /\ Len(out) = 2
    /\ Concat(out) = data

\* C2: compress writes exactly ceil(len/block_size) frames for a non-empty
\* buffer and none for an empty one.
BlockCount ==
    (block_size > 0 /\ Returned) =>
        /\ FramesWritten = (IF data = <<>> THEN 0
                            ELSE CeilDiv(num_bytes, block_size))
        /\ Len(EventsOf("write_len")) = FramesWritten
        /\ ~Faulted("short_write") =>
               LET p == ParseFrames(dest, endian)
               IN  p.ok /\ Len(p.frames) = FramesWritten

BlockCountWitness ==
    /\ block_size = 2 /\ Len(data) = 3 /\ pc = "written"
    /\ FramesWritten = 2 /\ Len(ParseFrames(dest, endian).frames) = 2

\* C3: the i-th block handed to the codec covers bytes
\* [i*block_size, min((i+1)*block_size, len)); all blocks but the last have
\* length block_size, the last has len mod block_size, or block_size.
BlockPartition ==
    block_size > 0 =>
        LET chunks == EventsOf("compress") IN
        \A i \in 1 .. Len(chunks) :
            /\ chunks[i].lo = (i - 1) * block_size
            /\ chunks[i].hi = Min(i * block_size, num_bytes)
            /\ chunks[i].bytes = SubSeq(data, chunks[i].lo + 1, chunks[i].hi)
            /\ i < NumBlocks => Len(chunks[i].bytes) = block_size
            /\ i = NumBlocks =>
                   Len(chunks[i].bytes) =
                       (IF num_bytes % block_size = 0 THEN block_size
                        ELSE num_bytes % block_size)
            /\ i <= NumBlocks

BlockPartitionWitness ==
    /\ block_size = 2 /\ Len(data) = 3 /\ pc = "written"
    /\ Len(EventsOf("compress")) = 2
    /\ Len(EventsOf("compress")[2].bytes) = 1

\* C4: with block_size = 0 compress is refused before any I/O: the codec is
\* not called and nothing is written to the sink.
InvalidBlockSizeRejected ==
    block_size = 0 => (events = <<>> /\ dest = <<>>)

\* C5: a next_block call whose payload read delivered fewer bytes than the
\* length field announced does not return a block.
TruncatedPayloadDetected ==
    (~Faulted("short_write") /\ calls > 0 /\ len_read = SizeOfUsize
        /\ pc # "payload" /\ payload_read < chunk_size) =>
        (result # "some" /\ Len(out) < calls)

\* C6: a next_block call whose length-field read returned some but not all
\* bytes of the field neither goes on to the payload nor returns a block or
\* end-of-stream.
TruncatedLengthDetected ==
    (~Faulted("short_write") /\ calls > 0
        /\ len_read > 0 /\ len_read < SizeOfUsize) =>
        (pc # "payload" /\ result \notin {"some", "none"})

\* C7: at every frame boundary of compress, the sink parses into the frames
\* completed so far: each length field is followed by exactly that many
\* payload bytes, also when the sink took only part of a write.
FrameLengthInvariant ==
    (block_size > 0 /\ pc \in {"loop", "written"}) =>
        LET p == ParseFrames(dest, endian)
        IN  /\ p.ok
            /\ Len(p.frames) = FramesWritten
            /\ \A i \in 1 .. Len(p.frames) :
                   Len(p.frames[i]) = EventsOf("compress")[i].n

\* C8: for a positive block size, the codec calls and sink writes of compress
\* are, block after block from the left, compress(block), write(length of
\* the compressed block), write(compressed block); none is skipped, and an
\* empty buffer causes no write.
WriteOrdering ==
    block_size > 0 =>
        /\ \A j \in 1 .. Len(events) :
               LET i == (j - 1) \div 3 + 1
                   cc == CodecCompress(codec, Block(i))
               IN  /\ i <= NumBlocks
                   /\ (j - 1) % 3 = 0 =>
                          /\ events[j].op = "compress"
                          /\ events[j].bytes = Block(i)
                   /\ (j - 1) % 3 = 1 =>
                          /\ events[j].op = "write_len"
                          /\ from_raw_bytes(events[j].bytes, endian) = Len(cc)
                          /\ Len(events[j].bytes) = SizeOfUsize
                   /\ (j - 1) % 3 = 2 =>
                          /\ events[j].op = "write_payload"
                          /\ events[j].bytes = cc
        /\ Returned => Len(events) = 3 * NumBlocks
        /\ data = <<>> => (events = <<>> /\ dest = <<>>)

WriteOrderingWitness ==
    /\ block_size = 1 /\ Len(data) = 3 /\ codec = "snappy" /\ pc = "written"
    /\ Len(events) = 9
    /\ events[8].op = "write_len" /\ events[9].op = "write_payload"

\* C9: with the passthrough codec and a sink that takes every write whole,
\* the stream written is, block after block, the block's length as a length
\* field and then the block's bytes.
PassthroughFraming ==
    (codec = "none" /\ block_size > 0 /\ Returned
        /\ ~Faulted("short_write")) =>
        LET p == ParseFrames(dest, endian)
        IN  /\ p.ok
            /\ p.frames = [i \in 1 .. NumBlocks |-> Block(i)]
            /\ Len(dest) = NumBlocks * SizeOfUsize + num_bytes

\* Three bytes with block size 2: two frames, of lengths 2 and 1.
PassthroughFramingWitness ==
    /\ codec = "none" /\ block_size = 2 /\ Len(data) = 3 /\ pc = "written"
    /\ faults = <<>>
    /\ dest = to_raw_bytes(2, endian) \o SubSeq(data, 1, 2)
              \o to_raw_bytes(1, endian) \o SubSeq(data, 3, 3)

\* C10: a next_block call whose length-field read returned zero bytes
\* returns "no more blocks" and does not fail; over the stream of an empty
\* buffer the first call does so, and over a stream of k frames the
\* (k+1)-th call does so after k blocks were yielded.
CleanEndOfStream ==
    /\ (calls > 0 /\ len_read = 0) =>
           (result = "none" /\ pc = "call" /\ failure = "none")
    /\ (faults = <<>> /\ pc = "call" /\ calls > FramesWritten) =>
           (result = "none" /\ len_read = 0 /\ Len(out) = FramesWritten)
    /\ (faults = <<>> /\ pc = "call" /\ calls > 0 /\ calls <= FramesWritten) =>
           (result = "some" /\ Len(out) = calls)
    /\ (faults = <<>> /\ data = <<>> /\ calls > 0) =>
           (result = "none" /\ out = <<>>)

CleanEndOfStreamWitness ==
    /\ faults = <<>> /\ pc = "call" /\ result = "none" /\ len_read = 0
    /\ FramesWritten = 3 /\ calls = 4 /\ Len(out) = 3

\* C11: a next_block call whose read of the source failed, on the length
\* field or on the payload, ends in a failure its caller can tell from
\* end-of-stream, and returns no block.
SourceErrorSurfaced ==
    /\ (calls > 0 /\ len_read = -1) => result \notin {"none", "some"}
    /\ failure = "read_unwrap" => result = "panic"

\* The bytes the sink took, write after write.
Accepted ==
    LET w == SelectSeq(events, LAMBDA ev : ev.op # "compress")
    IN  Concat([j \in 1 .. Len(w) |-> Prefix(w[j].bytes, w[j].n)])

\* C12: once the sink has rejected a write, compress has failed on that
\* write: nothing happens after it (no codec call, no sink write), and the
\* sink holds exactly the bytes it took before (no rollback).
SinkFailureStops ==
    /\ [](Faulted("write_err") =>
            /\ pc = "panic" /\ failure = "write_unwrap"
            /\ dest = Accepted
            /\ events[Len(events)].op \in {"compress", "write_len"})
    /\ [][Faulted("write_err") => UNCHANGED vars]_vars

SinkFailureStopsWitness ==
    /\ Faulted("write_err") /\ pc = "panic"
    /\ Len(EventsOf("compress")) = 2 /\ Len(EventsOf("write_len")) = 2
    /\ Len(EventsOf("write_payload")) = 1
    /\ dest # <<>>

\* C13: once a next_block call has reported no more blocks or has failed,
\* no later call on the same reader yields a block.
\* (Between calls, calls - Len(out) counts the calls that returned None: a
\* call that returns a block after one that did not leaves calls > Len(out).)
NotRestartable ==
    (pc = "call" /\ result = "some") => calls = Len(out)

WriterTermination ==
    /\ (block_size >= 1) => <>(pc = "written" \/ faults # <<>>)
    /\ [](block_size >= 1 =>
            /\ lower_limit <= num_bytes
            /\ pc = "written" => lower_limit = num_bytes)
    /\ [][block_size >= 1 =>
            /\ lower_limit' >= lower_limit
            /\ (pc = "write_payload" /\ pc' = "loop") =>
                   lower_limit' > lower_limit]_vars

WriterTerminationWitness ==
    /\ pc = "written" /\ faults = <<>> /\ block_size = 1
    /\ Len(data) = 3 /\ lower_limit = 3 /\ Len(EventsOf("compress")) = 3

\* C16: for a buffer of at most isize::MAX bytes and any block size from 1
\* to usize::MAX, lower_limit + block_size never exceeds usize::MAX when an
\* iteration computes it, and the block it bounds satisfies
\* lower_limit < upper_limit <= data.len().
NoOverflow ==
    /\ (pc = "loop" /\ LoopCondition(lower_limit, num_bytes)) =>
           lower_limit + block_size <= MaxWord
    /\ pc \in {"write_len", "write_payload"} =>
           /\ lower_limit < upper_limit
           /\ upper_limit <= num_bytes
           /\ upper_limit = Min(lower_limit + block_size, num_bytes)
    /\ failure \notin {"add_overflow", "slice_index"}

\* The largest sum 4-bit sizes allow: 7 bytes in blocks of 6, second block.
NoOverflowWitness ==
    /\ Len(data) = IsizeMax /\ block_size = IsizeMax - 1
    /\ pc = "write_len" /\ lower_limit = block_size /\ upper_limit = num_bytes

\* The position in stream s just after its first k frames.
RECURSIVE FrameEnd(_, _)
FrameEnd(fs, k) ==
    IF k = 0 THEN 0 ELSE FrameEnd(fs, k - 1) + SizeOfUsize + Len(fs[k])

\* C17: over a stream written by compress, with a sink and a source that
\* move every byte asked of them, after the k-th next_block call that
\* returns a block the source stands right after the k-th frame, the scratch
\* buffer holds exactly that frame's payload, and the k-th block is the
\* decode of the k-th frame's payload.
FrameAligned ==
    (faults = <<>> /\ pc = "call" /\ result = "some") =>
        LET fs == ParseFrames(reader, endian).frames
            k == Len(out)
        IN  /\ k = calls /\ k <= Len(fs)
            /\ reader_pos = FrameEnd(fs, k)
            /\ reader_pos = FrameEnd(fs, k - 1) + SizeOfUsize + chunk_size
            /\ Len(buffer) = Len(fs[k])
            /\ buffer = fs[k]
            /\ \A i \in 1 .. k :
                   /\ fs[i] = EventsOf("write_payload")[i].bytes
                   /\ out[i] = EventsOf("compress")[i].bytes

FrameAlignedWitness ==
    /\ faults = <<>> /\ pc = "call" /\ result = "some"
    /\ codec = "snappy" /\ block_size = 2 /\ Len(data) = 3
    /\ Len(out) = 2 /\ Len(buffer) = 2 /\ reader_pos = Len(reader)

\* C18: a next_block call that returns no block, its length-field read
\* having returned zero bytes or an error, reads no payload, calls no
\* decompress, and leaves the scratch buffer as it was.
EndOfStreamUntouched ==
    [][(pc = "call" /\ calls' = calls + 1 /\ len_read' <= 0) =>
          /\ pc' = "call" /\ result' = "none"
          /\ buffer' = buffer
          /\ codec_buffer' = codec_buffer
          /\ out' = out
          /\ reader_pos' = reader_pos
          /\ payload_read' = 0]_vars

EndOfStreamUntouchedWitness ==
    /\ pc = "call" /\ result = "none" /\ len_read = 0
    /\ calls = 3 /\ Len(out) = 2
    /\ Len(buffer) = 2 /\ buffer = EventsOf("write_payload")[2].bytes

====
